---- MODULE Spec2Model ----
(***************************************************************************)
(* Session booking with Google Calendar integration and OAuth token        *)
(* lifecycle (Aurora backend).  Time is counted in minutes since the       *)
(* midnight that starts day 0 (a Sunday); a token is a positive number     *)
(* issued by the identity provider.                                        *)
(***************************************************************************)
EXTENDS Integers, Sequences, FiniteSets, TLC

----------------------------------------------------------------------------
(* Bounds of the model                                                     *)

MaxTicks == 2
MaxTokens == 4
MaxSessions == 2
MaxEvents == 2

----------------------------------------------------------------------------
(* Program constants                                                       *)

MinutesPerDay == 1440
SessionDuration == 30
RefreshBufferMin == 5
MaxRetries == 3
BaseDelayMs == 1000

NoToken == 0
NoDate == -1

(* Monday 09:55 of the first week: the instant the model's clock starts at *)
NowStart == MinutesPerDay + 595
TickSteps == {1, 5}
(* Lifetime of an access token as the provider reports it, in minutes      *)
TokenLifetime == 6

dayNames == <<"sunday", "monday", "tuesday", "wednesday", "thursday", "friday", "saturday">>

TransientCodes == {"ETIMEDOUT", "ECONNRESET", "ENOTFOUND"}
ErrorCodes == TransientCodes \cup {"invalid_grant"}

----------------------------------------------------------------------------
(* The user collection: ids, roles and the isActive flag                   *)

Speakers == {"sp1", "sp2"}
Learners == {"ln1", "ln2"}

UserRole(u) ==
  CASE u \in {"sp0", "sp1", "sp2"} -> "speaker"
    [] u \in Learners -> "learner"
    [] OTHER -> "none"

UserExists(u) == UserRole(u) # "none"

UserIsActive(u) == u # "sp0"

----------------------------------------------------------------------------
(* Times of day, dates and minute arithmetic                               *)

HM(h, m) == [kind |-> "hm", h |-> h, m |-> m]
MissingTime == [kind |-> "missing", h |-> 0, m |-> 0]
MalformedTime == [kind |-> "malformed", h |-> 0, m |-> 0]

OnDay(d) == [kind |-> "day", d |-> d]
MissingDate == [kind |-> "missing", d |-> 0]
InvalidDate == [kind |-> "invalid", d |-> 0]

timeToMinutes(t) == t.h * 60 + t.m

(* new Date(`${date}THH:MM:00`) as minutes since the epoch of the model    *)
sessionInstant(d, t) == d * MinutesPerDay + timeToMinutes(t)

getDay(instant) == (instant \div MinutesPerDay) % 7

requestedDayOf(instant) == dayNames[getDay(instant) + 1]

Pow2(n) == IF n <= 0 THEN 1 ELSE IF n = 1 THEN 2 ELSE IF n = 2 THEN 4 ELSE 8

IsBlank(s) == s \in {"", " "}

SelectNonBlank(ts) == SelectSeq(ts, LAMBDA t : ~IsBlank(t))

----------------------------------------------------------------------------
(* Meeting links: the host followed by hyphen-separated groups of letters  *)

MeetHost == "https://meet.google.com"
Chars == {"a", "z"}

BareLink == [host |-> MeetHost, code |-> <<>>]
NoLink == [host |-> "", code |-> <<>>]
(* a link issued by the provider: groups of 3, 4 and 3 letters             *)
ProviderLink == [host |-> MeetHost,
                 code |-> << <<"a", "b", "c">>, <<"d", "e", "f", "g">>, <<"h", "i", "j">> >>]

Truthy(link) == link.host # ""

(* the links generateMeetLink can return                                   *)
Trigraphs == {<<c1, c2, c3>> : c1 \in Chars, c2 \in Chars, c3 \in Chars}

generateMeetLink ==
  {[host |-> MeetHost, code |-> <<g1, g2, g3>>] :
     g1 \in Trigraphs, g2 \in Trigraphs, g3 \in Trigraphs}

----------------------------------------------------------------------------
(* retryWithBackoff: one iteration of the loop, given how fn() ended       *)

NewRetry == [attempt |-> 1, calls |-> 0, waits |-> <<>>, state |-> "run", error |-> "none"]

(* variant: the loop retries after any error, transient or not             *)
retryAnyError(rt, outcome) ==
  IF outcome = "ok"
  THEN [rt EXCEPT !.calls = @ + 1, !.state = "ok"]
  ELSE IF rt.attempt = MaxRetries
       THEN [rt EXCEPT !.calls = @ + 1, !.state = "thrown", !.error = outcome]
       ELSE [rt EXCEPT !.calls = @ + 1, !.attempt = @ + 1, !.error = outcome,
                       !.waits = Append(@, BaseDelayMs * Pow2(rt.attempt - 1))]

retryWithBackoff(rt, outcome) ==
  IF outcome = "ok"
  THEN [rt EXCEPT !.calls = @ + 1, !.state = "ok"]
  ELSE IF rt.attempt = MaxRetries \/ outcome \notin TransientCodes
       THEN [rt EXCEPT !.calls = @ + 1, !.state = "thrown", !.error = outcome]
       ELSE [rt EXCEPT !.calls = @ + 1, !.attempt = @ + 1, !.error = outcome,
                       !.waits = Append(@, BaseDelayMs * Pow2(rt.attempt - 1))]

(* the message of the error refreshAccessToken rethrows, as the fragments  *)
(* a substring test can find in it                                         *)
refreshErrorMessage(code) ==
  CASE code \in TransientCodes -> <<"Connection timeout to Google OAuth servers">>
    [] code = "invalid_grant" -> <<"invalid", "_grant">>
    [] OTHER -> <<"No refresh token is set.">>

----------------------------------------------------------------------------
(* Availability entries of a speaker                                       *)

Entry(day, s, e, avail) == [day |-> day, startTime |-> s, endTime |-> e, isAvailable |-> avail]

WeekA == << Entry("monday", HM(9, 0), HM(17, 0), TRUE),
            Entry("tuesday", HM(9, 0), HM(17, 0), TRUE),
            Entry("wednesday", HM(9, 0), HM(17, 0), FALSE) >>

(* a week whose Tuesday entry carries no times and whose Thursday is short *)
WeekB == << Entry("tuesday", MissingTime, MissingTime, TRUE),
            Entry("thursday", HM(16, 0), HM(17, 0), TRUE) >>

(* a week with two entries for Tuesday, morning first, and the same        *)
(* entries with the afternoon first                                        *)
WeekC == << Entry("tuesday", HM(9, 0), HM(12, 0), TRUE),
            Entry("tuesday", HM(13, 0), HM(17, 0), TRUE) >>

WeekD == << WeekC[2], WeekC[1] >>

(* Array.prototype.find: the first entry of the requested day, or none     *)
RECURSIVE findDay(_, _)
findDay(avail, day) ==
  IF avail = <<>> THEN [day |-> "none", startTime |-> MissingTime, endTime |-> MissingTime,
                        isAvailable |-> FALSE]
  ELSE IF Head(avail).day = day THEN Head(avail) ELSE findDay(Tail(avail), day)

startTimeOf(e) == IF e.startTime.kind = "hm" THEN e.startTime ELSE HM(0, 0)
endTimeOf(e) == IF e.endTime.kind = "hm" THEN e.endTime ELSE HM(23, 59)

----------------------------------------------------------------------------
VARIABLES now, ticks, googleCalendar, availability, sessions, events, issued,
          bk, cx, cy, st, cb, dbUp

vars == <<now, ticks, googleCalendar, availability, sessions, events, issued, bk, cx, cy, st,
          cb, dbUp>>

dbVars == <<googleCalendar, availability, sessions>>
clockVars == <<now, ticks>>

Slots == {1, 2}

NoCredential == [accessToken |-> NoToken, refreshToken |-> NoToken,
                 expiresAt |-> NoDate, connected |-> FALSE]

NoSpeaker == [id |-> "", googleCalendar |-> NoCredential, availability |-> <<>>]

NoResponse == [status |-> 0, error |-> "none", created |-> FALSE, meetLink |-> NoLink, session |-> 0]

NoBody == [speakerId |-> "", title |-> "", date |-> MissingDate, time |-> MissingTime, topics |-> <<>>]

IdleBooking == [pc |-> "idle", learnerId |-> "", body |-> NoBody, validTopics |-> <<>>,
                speaker |-> NoSpeaker, sessionDate |-> NoDate,
                client |-> [accessToken |-> NoToken, refreshToken |-> NoToken],
                retry |-> NewRetry,
                refreshedTokens |-> [accessToken |-> NoToken, expiryDate |-> NoDate],
                calendarResult |-> [success |-> FALSE, meetLink |-> NoLink],
                meetLink |-> NoLink, session |-> 0, log |-> <<>>, res |-> NoResponse]

Fail(status, error) == [NoResponse EXCEPT !.status = status, !.error = error]

----------------------------------------------------------------------------
(* bookSession, one action per stretch of code between two awaits          *)

Logged(b, entries) == [b EXCEPT !.log = @ \o entries]

Done(b, response) == [b EXCEPT !.pc = "done", !.res = response]

(* lines 528-539: the catch of bookSession for an error whose message does *)
(* not hold 'required', as a rejected database operation                   *)
serverError(b) == Done(b, Fail(500, "ServerError"))

(* variant: the topics are counted and stored as they arrive               *)
validateFieldsUnfiltered(b) ==
  LET body == b.body
      validTopics == body.topics
      b1 == Logged(b, <<"validateFields">>)
  IN  IF body.speakerId = "" \/ body.title = "" \/ body.date.kind = "missing"
         \/ body.time.kind = "missing"
      THEN Done(b1, Fail(400, "MissingFields"))
      ELSE IF Len(validTopics) > 2
           THEN Done(b1, Fail(400, "TooManyTopics"))
           ELSE [b1 EXCEPT !.pc = "findSpeaker", !.validTopics = validTopics]

(* lines 259-286: required fields and the topic cap                        *)
validateFields(b) ==
  LET body == b.body
      validTopics == SelectNonBlank(body.topics)
      b1 == Logged(b, <<"validateFields">>)
  IN  IF body.speakerId = "" \/ body.title = "" \/ body.date.kind = "missing"
         \/ body.time.kind = "missing"
      THEN Done(b1, Fail(400, "MissingFields"))
      ELSE IF Len(validTopics) > 2
           THEN Done(b1, Fail(400, "TooManyTopics"))
           ELSE [b1 EXCEPT !.pc = "findSpeaker", !.validTopics = validTopics]

StartBooking(r, learnerId, body) ==
  /\ bk[r].pc = "idle"
  /\ bk' = [bk EXCEPT ![r] = validateFields([IdleBooking EXCEPT !.learnerId = learnerId,
                                                                 !.body = body])]
  /\ UNCHANGED <<dbVars, clockVars, events, issued, cx, cy, st, cb, dbUp>>

(* User.findOne({_id, role: 'speaker', isActive: true})                    *)
findSpeaker(speakerId) ==
  IF UserExists(speakerId) /\ UserRole(speakerId) = "speaker" /\ UserIsActive(speakerId)
  THEN [id |-> speakerId, googleCalendar |-> googleCalendar[speakerId],
        availability |-> availability[speakerId]]
  ELSE NoSpeaker

(* lines 289-308: speaker lookup, then the calendar-connection check       *)
speakerGate(b) ==
  LET speaker == findSpeaker(b.body.speakerId)
      b1 == Logged(b, <<"speakerQuery">>)
  IN  IF speaker = NoSpeaker
      THEN Done(b1, Fail(404, "SpeakerUnavailable"))
      ELSE IF ~speaker.googleCalendar.connected
           THEN Done(Logged(b1, <<"connectedCheck">>), Fail(400, "CalendarNotConnected"))
           ELSE [Logged(b1, <<"connectedCheck">>) EXCEPT !.pc = "findLearner", !.speaker = speaker]

SpeakerLookup(r) ==
  /\ bk[r].pc = "findSpeaker"
  /\ bk' = [bk EXCEPT ![r] = IF dbUp THEN speakerGate(bk[r])
                             ELSE serverError(Logged(bk[r], <<"speakerQuery">>))]
  /\ UNCHANGED <<dbVars, clockVars, events, issued, cx, cy, st, cb, dbUp>>

(* variant: only the start of the session has to lie inside the window     *)
isAvailableStartOnly(speakerAvailability, instant, t) ==
  LET dayAvailability == findDay(speakerAvailability, requestedDayOf(instant))
      requestedMinutes == timeToMinutes(t)
      startMinutes == timeToMinutes(startTimeOf(dayAvailability))
      endMinutes == timeToMinutes(endTimeOf(dayAvailability))
  IN  IF dayAvailability.day = "none" \/ ~dayAvailability.isAvailable
      THEN "NotAvailableThatDay"
      ELSE IF requestedMinutes < startMinutes \/ requestedMinutes > endMinutes
           THEN "OutsideAvailability"
           ELSE "ok"

(* lines 384-423: the availability policy on the speaker read at lookup    *)
isAvailable(speakerAvailability, instant, t) ==
  LET dayAvailability == findDay(speakerAvailability, requestedDayOf(instant))
      requestedMinutes == timeToMinutes(t)
      startMinutes == timeToMinutes(startTimeOf(dayAvailability))
      endMinutes == timeToMinutes(endTimeOf(dayAvailability))
      sessionEndMinutes == requestedMinutes + SessionDuration
  IN  IF dayAvailability.day = "none" \/ ~dayAvailability.isAvailable
      THEN "NotAvailableThatDay"
      ELSE IF requestedMinutes < startMinutes \/ sessionEndMinutes > endMinutes
           THEN "OutsideAvailability"
           ELSE "ok"

(* variant: the availability check runs before the learner lookup         *)
learnerGateAvailabilityFirst(b) ==
  LET time == b.body.time
      date == b.body.date
      b1 == Logged(b, <<"timeCheck">>)
      sessionDate == sessionInstant(date.d, time)
      b2 == Logged(b1, <<"availabilityCheck">>)
      b3 == Logged(b2, <<"learnerQuery">>)
      verdict == isAvailable(b.speaker.availability, sessionDate, time)
  IN  IF time.kind # "hm" THEN Done(b1, Fail(400, "InvalidTimeFormat"))
      ELSE IF time.h < 0 \/ time.h > 23 \/ time.m < 0 \/ time.m > 59
           THEN Done(b1, Fail(400, "InvalidTime"))
      ELSE IF date.kind # "day" THEN Done(b1, Fail(400, "InvalidDate"))
      ELSE IF sessionDate <= now THEN Done(b1, Fail(400, "InThePast"))
      ELSE IF verdict # "ok" THEN Done(b2, Fail(400, verdict))
      ELSE IF ~UserExists(b.learnerId) THEN Done(b3, Fail(404, "LearnerNotFound"))
      ELSE [b3 EXCEPT !.pc = "findSessions", !.sessionDate = sessionDate]

(* lines 311-423: learner lookup, time and date validation, availability   *)
learnerGate(b) ==
  LET time == b.body.time
      date == b.body.date
      b1 == Logged(b, <<"learnerQuery">>)
      b2 == Logged(b1, <<"timeCheck">>)
      sessionDate == sessionInstant(date.d, time)
      b3 == Logged(b2, <<"availabilityCheck">>)
      verdict == isAvailable(b.speaker.availability, sessionDate, time)
  IN  IF ~UserExists(b.learnerId) THEN Done(b1, Fail(404, "LearnerNotFound"))
      ELSE IF time.kind # "hm" THEN Done(b2, Fail(400, "InvalidTimeFormat"))
      ELSE IF time.h < 0 \/ time.h > 23 \/ time.m < 0 \/ time.m > 59
           THEN Done(b2, Fail(400, "InvalidTime"))
      ELSE IF date.kind # "day" THEN Done(b2, Fail(400, "InvalidDate"))
      ELSE IF sessionDate <= now THEN Done(b2, Fail(400, "InThePast"))
      ELSE IF verdict # "ok" THEN Done(b3, Fail(400, verdict))
      ELSE [b3 EXCEPT !.pc = "findSessions", !.sessionDate = sessionDate]

LearnerLookup(r) ==
  /\ bk[r].pc = "findLearner"
  /\ bk' = [bk EXCEPT ![r] = IF dbUp THEN learnerGate(bk[r])
                             ELSE serverError(Logged(bk[r], <<"learnerQuery">>))]
  /\ UNCHANGED <<dbVars, clockVars, events, issued, cx, cy, st, cb, dbUp>>

(* lines 427-434: Session.find by speaker, calendar day and status         *)
findScheduled(speakerId, sessionDate) ==
  LET dayStart == (sessionDate \div MinutesPerDay) * MinutesPerDay
  IN  SelectSeq(sessions, LAMBDA s :
        /\ s.speaker = speakerId
        /\ s.date >= dayStart
        /\ s.date * 60 < (dayStart + 23 * 60 + 59) * 60 + 59
        /\ s.status \in {"scheduled"})

(* variant: a conflict only when the request starts inside the existing    *)
(* session                                                                 *)
overlapsStartInside(requestedMinutes, existingMinutes) ==
  LET existingEndMinutes == existingMinutes + SessionDuration
  IN  requestedMinutes >= existingMinutes /\ requestedMinutes < existingEndMinutes

(* variant: windows that only touch count as overlapping                   *)
overlapsInclusive(requestedMinutes, existingMinutes) ==
  LET sessionEndMinutes == requestedMinutes + SessionDuration
      existingEndMinutes == existingMinutes + SessionDuration
  IN  requestedMinutes <= existingEndMinutes /\ sessionEndMinutes >= existingMinutes

overlaps(requestedMinutes, existingMinutes) ==
  LET sessionEndMinutes == requestedMinutes + SessionDuration
      existingEndMinutes == existingMinutes + SessionDuration
  IN  requestedMinutes < existingEndMinutes /\ sessionEndMinutes > existingMinutes

(* lines 436-451: the time of the first existing session that overlaps,    *)
(* MissingTime when none does                                              *)
RECURSIVE firstConflict(_, _)
firstConflict(existingSessions, requestedMinutes) ==
  IF existingSessions = <<>> THEN MissingTime
  ELSE IF overlaps(requestedMinutes, timeToMinutes(Head(existingSessions).time))
       THEN Head(existingSessions).time
       ELSE firstConflict(Tail(existingSessions), requestedMinutes)

createOAuthClient(accessToken, refreshToken) ==
  [accessToken |-> accessToken, refreshToken |-> refreshToken]

(* line 460: does bookSession refresh the token before the calendar call   *)
bookingNeedsRefresh(expiresAt, t) == expiresAt # NoDate /\ t >= expiresAt

(* lines 427-460: conflict check, then the OAuth client of the speaker     *)
conflictGate(b) ==
  LET existingSessions == findScheduled(b.body.speakerId, b.sessionDate)
      conflictTime == firstConflict(existingSessions, timeToMinutes(b.body.time))
      b1 == Logged(b, <<"sessionQuery", "conflictCheck">>)
      gc == b.speaker.googleCalendar
      b2 == [Logged(b1, <<"tokenAcquire">>) EXCEPT
               !.client = createOAuthClient(gc.accessToken, gc.refreshToken)]
  IN  IF conflictTime # MissingTime THEN Done(b1, Fail(400, "SlotTaken"))
      ELSE IF bookingNeedsRefresh(gc.expiresAt, now)
           THEN [b2 EXCEPT !.pc = "refresh", !.retry = NewRetry]
           ELSE [b2 EXCEPT !.pc = "calendar"]

(* variant: the token is refreshed before the conflict check is decided   *)
ConflictCheckRefreshFirst(r) ==
  LET gc == bk[r].speaker.googleCalendar IN
  /\ bk[r].pc = "findSessions"
  /\ bk' = [bk EXCEPT ![r] = conflictGate(bk[r])]
  /\ issued' = IF bookingNeedsRefresh(gc.expiresAt, now) /\ issued < MaxTokens
                THEN issued + 1 ELSE issued
  /\ UNCHANGED <<dbVars, clockVars, events, cx, cy, st, cb, dbUp>>

ConflictCheck(r) ==
  /\ bk[r].pc = "findSessions"
  /\ bk' = [bk EXCEPT ![r] = IF dbUp THEN conflictGate(bk[r])
                             ELSE serverError(Logged(bk[r], <<"sessionQuery">>))]
  /\ UNCHANGED <<dbVars, clockVars, events, issued, cx, cy, st, cb, dbUp>>

(* how one call of client.refreshAccessToken() can end                     *)
RefreshOutcomes(client) ==
  IF client.refreshToken = NoToken THEN {"no_refresh_token"}
  ELSE ErrorCodes \cup (IF issued < MaxTokens THEN {"ok"} ELSE {})

Expiries == {now + TokenLifetime, NoDate}

(* variant: when the attempts are used up the handler sends no response    *)
refreshStepNoAnswer(b, outcome, expiry) ==
  LET rt == retryWithBackoff(b.retry, outcome)
      b1 == [Logged(b, <<"refreshCall">>) EXCEPT !.retry = rt]
  IN  CASE rt.state = "ok" ->
             [b1 EXCEPT !.pc = "saveTokens",
                        !.refreshedTokens = [accessToken |-> issued + 1, expiryDate |-> expiry]]
        [] rt.state = "thrown" -> [b1 EXCEPT !.pc = "pending"]
        [] OTHER -> b1

(* lines 462 and 474-480 with refreshAccessToken: one attempt              *)
refreshStep(b, outcome, expiry) ==
  LET rt == retryWithBackoff(b.retry, outcome)
      b1 == [Logged(b, <<"refreshCall">>) EXCEPT !.retry = rt]
  IN  CASE rt.state = "ok" ->
             [b1 EXCEPT !.pc = "saveTokens",
                        !.refreshedTokens = [accessToken |-> issued + 1, expiryDate |-> expiry]]
        [] rt.state = "thrown" -> Done(b1, Fail(500, "CalendarAuthFailure"))
        [] OTHER -> b1

BookingRefresh(r) ==
  /\ bk[r].pc = "refresh"
  /\ \E outcome \in RefreshOutcomes(bk[r].client), expiry \in Expiries :
       /\ outcome # "ok" => expiry = NoDate
       /\ bk' = [bk EXCEPT ![r] = refreshStep(bk[r], outcome, expiry)]
       /\ issued' = IF outcome = "ok" THEN issued + 1 ELSE issued
  /\ UNCHANGED <<dbVars, clockVars, events, cx, cy, st, cb, dbUp>>

(* variant: the refreshed token is stored but the OAuth client of the      *)
(* request is not rebuilt                                                  *)
BookingSaveTokensKeepClient(r) ==
  LET b == bk[r] IN
  /\ b.pc = "saveTokens"
  /\ googleCalendar' = [googleCalendar EXCEPT
       ![b.body.speakerId].accessToken = b.refreshedTokens.accessToken,
       ![b.body.speakerId].expiresAt = b.refreshedTokens.expiryDate]
  /\ bk' = [bk EXCEPT ![r] = [Logged(b, <<"tokenWrite">>) EXCEPT !.pc = "calendar"]]
  /\ UNCHANGED <<availability, sessions, clockVars, events, issued, cx, cy,
                 st, cb, dbUp>>

(* lines 465-473: store the refreshed token, rebuild the client            *)
BookingSaveTokens(r) ==
  LET b == bk[r] IN
  /\ b.pc = "saveTokens"
  /\ IF dbUp
     THEN /\ googleCalendar' = [googleCalendar EXCEPT
               ![b.body.speakerId].accessToken = b.refreshedTokens.accessToken,
               ![b.body.speakerId].expiresAt = b.refreshedTokens.expiryDate]
          /\ bk' = [bk EXCEPT ![r] = [Logged(b, <<"tokenWrite">>) EXCEPT
               !.pc = "calendar",
               !.client = createOAuthClient(b.refreshedTokens.accessToken,
                                            b.speaker.googleCalendar.refreshToken)]]
     ELSE /\ googleCalendar' = googleCalendar
          /\ bk' = [bk EXCEPT ![r] = Done(Logged(b, <<"tokenWrite">>),
                                          Fail(500, "CalendarAuthFailure"))]
  /\ UNCHANGED <<availability, sessions, clockVars, events, issued, cx, cy,
                 st, cb, dbUp>>

(* googleCalendar.js lines 343-427: the result object of createCalendarEvent *)
createCalendarEvent(outcome) ==
  CASE outcome = "link" -> [success |-> TRUE, meetLink |-> ProviderLink]
    [] outcome = "noLink" -> [success |-> TRUE, meetLink |-> BareLink]
    [] OTHER -> [success |-> FALSE, meetLink |-> BareLink]

CalendarOutcomes == {"fail"} \cup (IF Len(events) < MaxEvents THEN {"link", "noLink"} ELSE {})

(* variant: a failure of the calendar call fails the booking               *)
CalendarInsertPropagates(r) ==
  LET b == bk[r] IN
  /\ b.pc = "calendar"
  /\ \E outcome \in CalendarOutcomes :
       LET calendarResult == createCalendarEvent(outcome)
       IN  /\ events' = IF outcome = "fail" THEN events
                        ELSE Append(events, [speaker |-> b.body.speakerId, start |-> b.sessionDate,
                                             token |-> b.client.accessToken, slot |-> r])
           /\ bk' = [bk EXCEPT ![r] =
                IF outcome = "fail"
                THEN Done([Logged(b, <<"calendarCall">>) EXCEPT !.calendarResult = calendarResult],
                          Fail(500, "CalendarFailure"))
                ELSE [Logged(b, <<"calendarCall">>) EXCEPT
                        !.pc = "create", !.calendarResult = calendarResult,
                        !.meetLink = calendarResult.meetLink]]
  /\ UNCHANGED <<dbVars, clockVars, issued, cx, cy, st, cb, dbUp>>

(* lines 484-498: the calendar call and the choice of the meeting link     *)
CalendarInsert(r) ==
  LET b == bk[r] IN
  /\ b.pc = "calendar"
  /\ \E outcome \in CalendarOutcomes :
       LET calendarResult == createCalendarEvent(outcome)
       IN  /\ events' = IF outcome = "fail" THEN events
                        ELSE Append(events, [speaker |-> b.body.speakerId, start |-> b.sessionDate,
                                             token |-> b.client.accessToken, slot |-> r])
           /\ \E link \in (IF Truthy(calendarResult.meetLink) THEN {calendarResult.meetLink}
                           ELSE generateMeetLink) :
                bk' = [bk EXCEPT ![r] = [Logged(b, <<"calendarCall">>) EXCEPT
                         !.pc = "create", !.calendarResult = calendarResult, !.meetLink = link]]
  /\ UNCHANGED <<dbVars, clockVars, issued, cx, cy, st, cb, dbUp>>

(* sessionSchema: title is trimmed and required                            *)
sessionValid(title) == ~IsBlank(title)

NewSession(b) ==
  [title |-> b.body.title, speaker |-> b.body.speakerId, learner |-> b.learnerId,
   date |-> b.sessionDate, time |-> b.body.time, duration |-> SessionDuration,
   topics |-> b.validTopics, meetingLink |-> b.meetLink, status |-> "scheduled"]

(* lines 500-512 and the catch of lines 528-539: Session.create            *)
CreateSession(r) ==
  LET b == Logged(bk[r], <<"sessionCreate">>) IN
  /\ bk[r].pc = "create"
  /\ IF ~sessionValid(b.body.title)
     THEN /\ sessions' = sessions
          /\ bk' = [bk EXCEPT ![r] = Done(b, Fail(400, "ValidationError"))]
     ELSE IF dbUp
          THEN /\ sessions' = Append(sessions, NewSession(b))
               /\ bk' = [bk EXCEPT ![r] = [b EXCEPT !.pc = "populate",
                                                    !.session = Len(sessions) + 1]]
          ELSE /\ sessions' = sessions
               /\ bk' = [bk EXCEPT ![r] = serverError(b)]
  /\ UNCHANGED <<googleCalendar, availability, clockVars, events, issued, cx, cy,
                 st, cb, dbUp>>

(* lines 514-539: populate the speaker and answer 201; a rejected populate *)
(* lands in the catch                                                      *)
BookingRespond(r) ==
  LET b == bk[r] IN
  /\ b.pc = "populate"
  /\ bk' = [bk EXCEPT ![r] =
       IF dbUp
       THEN Done(b, [status |-> 201, error |-> "none",
                     created |-> b.calendarResult.success,
                     meetLink |-> b.meetLink, session |-> b.session])
       ELSE Done(b, [Fail(500, "ServerError") EXCEPT !.session = 0])]
  /\ UNCHANGED <<dbVars, clockVars, events, issued, cx, cy, st, cb, dbUp>>

----------------------------------------------------------------------------
(* handleCalendarCallback (calendarController.js lines 32-79)              *)

IdleCallback == [pc |-> "idle", code |-> "", state |-> "", retry |-> NewRetry,
                 tokens |-> [accessToken |-> NoToken, refreshToken |-> NoToken,
                             expiryDate |-> NoDate, hasRefresh |-> FALSE],
                 status |-> 0]

(* variant: the state parameter is not looked at before the exchange       *)
StartCallbackCodeOnly(code, state) ==
  /\ cb.pc = "idle"
  /\ cb' = IF code = ""
           THEN [IdleCallback EXCEPT !.pc = "done", !.code = code, !.state = state, !.status = 400]
           ELSE [IdleCallback EXCEPT !.pc = "exchange", !.code = code, !.state = state]
  /\ UNCHANGED <<dbVars, clockVars, events, issued, bk, cx, cy, st, dbUp>>

(* lines 37-50: the two query parameters                                   *)
StartCallback(code, state) ==
  /\ cb.pc = "idle"
  /\ cb' = IF code = "" \/ state = ""
           THEN [IdleCallback EXCEPT !.pc = "done", !.code = code, !.state = state, !.status = 400]
           ELSE [IdleCallback EXCEPT !.pc = "exchange", !.code = code, !.state = state]
  /\ UNCHANGED <<dbVars, clockVars, events, issued, bk, cx, cy, st, dbUp>>

ExchangeOutcomes == ErrorCodes \cup (IF issued < MaxTokens THEN {"ok"} ELSE {})

(* getTokensFromCode (googleCalendar.js lines 95-137): one attempt of the  *)
(* code exchange; the provider may leave out refresh_token or expiry_date  *)
CallbackExchange ==
  /\ cb.pc = "exchange"
  /\ \E outcome \in ExchangeOutcomes, hasRefresh \in BOOLEAN, expiry \in Expiries :
       LET rt == retryWithBackoff(cb.retry, outcome) IN
       /\ outcome # "ok" => (~hasRefresh /\ expiry = NoDate)
       /\ hasRefresh => issued + 1 < MaxTokens
       /\ cb' = CASE rt.state = "ok" ->
                       [cb EXCEPT !.pc = "write", !.retry = rt,
                          !.tokens = [accessToken |-> issued + 1,
                                      refreshToken |-> IF hasRefresh THEN issued + 2 ELSE NoToken,
                                      expiryDate |-> expiry, hasRefresh |-> hasRefresh]]
                  [] rt.state = "thrown" -> [cb EXCEPT !.pc = "done", !.retry = rt, !.status = 302]
                  [] OTHER -> [cb EXCEPT !.retry = rt]
       /\ issued' = IF outcome # "ok" THEN issued
                    ELSE IF hasRefresh THEN issued + 2 ELSE issued + 1
  /\ UNCHANGED <<dbVars, clockVars, events, bk, cx, cy, st, dbUp>>

(* lines 54-73: User.findByIdAndUpdate with the four credential fields; an *)
(* undefined refreshToken is either dropped from the update or stored null *)
CallbackWrite ==
  /\ cb.pc = "write"
  /\ IF cb.state \in Speakers
     THEN \E dropUndefined \in BOOLEAN :
            googleCalendar' = [googleCalendar EXCEPT ![cb.state] =
              [accessToken |-> cb.tokens.accessToken,
               refreshToken |-> IF cb.tokens.hasRefresh THEN cb.tokens.refreshToken
                                ELSE IF dropUndefined THEN googleCalendar[cb.state].refreshToken
                                ELSE NoToken,
               expiresAt |-> cb.tokens.expiryDate,
               connected |-> TRUE]]
     ELSE googleCalendar' = googleCalendar
  /\ cb' = [cb EXCEPT !.pc = "done", !.status = IF cb.state \in Speakers THEN 302 ELSE 404]
  /\ UNCHANGED <<availability, sessions, clockVars, events, issued, bk, cx, cy,
                 st, dbUp>>

----------------------------------------------------------------------------
(* disconnectCalendar (calendarController.js lines 172-205)                *)

DisconnectCalendar(userId) ==
  /\ googleCalendar[userId] # NoCredential
  /\ googleCalendar' = [googleCalendar EXCEPT ![userId] = NoCredential]
  /\ UNCHANGED <<availability, sessions, clockVars, events, issued, bk, cx, cy,
                 st, cb, dbUp>>

----------------------------------------------------------------------------
(* getCalendarStatus (calendarController.js lines 84-167) with             *)
(* getValidOAuthClient (googleCalendar.js lines 215-313)                   *)

IdleStatus == [pc |-> "idle", userId |-> "", user |-> NoCredential, retry |-> NewRetry,
               refreshedTokens |-> [accessToken |-> NoToken, expiryDate |-> NoDate],
               log |-> <<>>,
               res |-> [connected |-> FALSE, expiresAt |-> NoDate, tokenValid |-> FALSE,
                        message |-> "none"]]

(* variant: getValidOAuthClient refreshes on every call                    *)
clientAlwaysRefreshes(expiresAt, t) == TRUE

(* line 257: does getValidOAuthClient refresh the token                    *)
clientNeedsRefresh(expiresAt, t) == expiresAt = NoDate \/ (expiresAt - t) < RefreshBufferMin

StatusDone(s, connected, expiresAt, tokenValid, message) ==
  [s EXCEPT !.pc = "done",
            !.res = [connected |-> connected, expiresAt |-> expiresAt,
                     tokenValid |-> tokenValid, message |-> message]]

(* lines 87-105 and getValidOAuthClient lines 216-257                      *)
statusRead(s, user) ==
  LET s1 == [s EXCEPT !.user = user, !.log = @ \o <<"tokenAcquire">>] IN
  IF ~user.connected THEN StatusDone([s EXCEPT !.user = user], FALSE, NoDate, FALSE, "none")
  ELSE IF user.accessToken = NoToken \/ user.refreshToken = NoToken
       THEN StatusDone(s1, user.connected, user.expiresAt, FALSE, "Unable to verify token")
       ELSE IF clientNeedsRefresh(user.expiresAt, now)
            THEN [s1 EXCEPT !.pc = "refresh", !.retry = NewRetry]
            ELSE [s1 EXCEPT !.pc = "reload"]

StartStatus(userId) ==
  /\ st.pc = "idle"
  /\ st' = statusRead([IdleStatus EXCEPT !.userId = userId], googleCalendar[userId])
  /\ UNCHANGED <<dbVars, clockVars, events, issued, bk, cx, cy, cb, dbUp>>

Includes(message, word) == \E i \in 1..Len(message) : message[i] = word

(* lines 258-309 and the catch of lines 118-148: one refresh attempt       *)
statusRefresh(s, outcome, expiry) ==
  LET rt == retryWithBackoff(s.retry, outcome)
      s1 == [s EXCEPT !.retry = rt, !.log = @ \o <<"refreshCall">>]
  IN  CASE rt.state = "ok" ->
             [s1 EXCEPT !.pc = "saveTokens",
                        !.refreshedTokens = [accessToken |-> issued + 1, expiryDate |-> expiry]]
        [] rt.state = "thrown" ->
             IF Includes(refreshErrorMessage(rt.error), "invalid")
                \/ Includes(refreshErrorMessage(rt.error), "revoked")
             THEN [s1 EXCEPT !.pc = "markDisconnected"]
             ELSE StatusDone(s1, s.user.connected, s.user.expiresAt, FALSE, "Unable to verify token")
        [] OTHER -> s1

StatusRefresh ==
  /\ st.pc = "refresh"
  /\ \E outcome \in RefreshOutcomes(createOAuthClient(st.user.accessToken, st.user.refreshToken)),
        expiry \in Expiries :
       /\ outcome # "ok" => expiry = NoDate
       /\ st' = statusRefresh(st, outcome, expiry)
       /\ issued' = IF outcome = "ok" THEN issued + 1 ELSE issued
  /\ UNCHANGED <<dbVars, clockVars, events, bk, cx, cy, cb, dbUp>>

(* lines 262-271: updateUserCallback stores the refreshed token            *)
StatusSaveTokens ==
  /\ st.pc = "saveTokens"
  /\ googleCalendar' = [googleCalendar EXCEPT
       ![st.userId].accessToken = st.refreshedTokens.accessToken,
       ![st.userId].expiresAt = st.refreshedTokens.expiryDate]
  /\ st' = [st EXCEPT !.pc = "reload", !.log = @ \o <<"tokenWrite">>]
  /\ UNCHANGED <<availability, sessions, clockVars, events, issued, bk, cx, cy, cb, dbUp>>

(* lines 123-135: mark the calendar as disconnected                        *)
StatusMarkDisconnected ==
  /\ st.pc = "markDisconnected"
  /\ googleCalendar' = [googleCalendar EXCEPT ![st.userId].connected = FALSE]
  /\ st' = StatusDone(st, FALSE, NoDate, FALSE, "Google Calendar token is invalid")
  /\ UNCHANGED <<availability, sessions, clockVars, events, issued, bk, cx, cy, cb, dbUp>>

(* lines 107-117: reload the user and answer                               *)
StatusReload ==
  /\ st.pc = "reload"
  /\ st' = StatusDone(st, googleCalendar[st.userId].connected,
                      googleCalendar[st.userId].expiresAt, TRUE, "none")
  /\ UNCHANGED <<dbVars, clockVars, events, issued, bk, cx, cy, cb, dbUp>>

----------------------------------------------------------------------------
(* cancelSession, learner variant (learnerController.js lines 545-611) and *)
(* speaker variant (googleAuthController.js lines 759-826)                 *)

IdleCancel == [pc |-> "idle", role |-> "", actor |-> "", sid |-> 0, reason |-> "",
               status |-> 0, error |-> "none", hoursUntilSession |-> 0]

CancellationMinHours == 24

(* variant: the lookup does not ask whose session it is                    *)
findAnyScheduled(sid, role, actor) ==
  /\ sid \in 1..Len(sessions)
  /\ sessions[sid].status = "scheduled"

(* Session.findOne({_id, <role>: actor, status: 'scheduled'})              *)
findOwnScheduled(sid, role, actor) ==
  /\ sid \in 1..Len(sessions)
  /\ (IF role = "learner" THEN sessions[sid].learner ELSE sessions[sid].speaker) = actor
  /\ sessions[sid].status = "scheduled"

(* Math.round(hoursUntilSession * 10), the remaining hours in tenths, for  *)
(* a positive number of minutes                                            *)
roundTenths(minutes) == (minutes + 3) \div 6

(* variant: a session exactly 24 hours away is refused as well             *)
cancelGateStrict(c, sessionDate, t) ==
  IF sessionDate <= t
  THEN [c EXCEPT !.pc = "done", !.status = 400, !.error = "AlreadyStarted"]
  ELSE IF sessionDate - t <= CancellationMinHours * 60
       THEN [c EXCEPT !.pc = "done", !.status = 400, !.error = "TooLateToCancel",
                      !.hoursUntilSession = roundTenths(sessionDate - t)]
       ELSE [c EXCEPT !.pc = "save"]

(* lines 565-588: the start instant against the clock and the 24 hour      *)
(* notice                                                                  *)
cancelGate(c, sessionDate, t) ==
  IF sessionDate <= t
  THEN [c EXCEPT !.pc = "done", !.status = 400, !.error = "AlreadyStarted"]
  ELSE IF sessionDate - t < CancellationMinHours * 60
       THEN [c EXCEPT !.pc = "done", !.status = 400, !.error = "TooLateToCancel",
                      !.hoursUntilSession = roundTenths(sessionDate - t)]
       ELSE [c EXCEPT !.pc = "save"]

(* lines 545-588: lookup of the session, then the two checks on its start  *)
cancelLookup(role, actor, sid, reason) ==
  LET c == [IdleCancel EXCEPT !.role = role, !.actor = actor, !.sid = sid, !.reason = reason]
      s == sessions[sid]
      sessionDate == (s.date \div MinutesPerDay) * MinutesPerDay + timeToMinutes(s.time)
  IN  IF ~findOwnScheduled(sid, role, actor)
      THEN [c EXCEPT !.pc = "done", !.status = 404, !.error = "NotCancellable"]
      ELSE cancelGate(c, sessionDate, now)

StartCancel(role, actor, sid, reason) ==
  /\ cx.pc = "idle"
  /\ cx' = cancelLookup(role, actor, sid, reason)
  /\ UNCHANGED <<dbVars, clockVars, events, issued, bk, cy, st, cb, dbUp>>

(* a second cancellation request, running while the first is in flight     *)
StartCancelOther(role, actor, sid, reason) ==
  /\ cy.pc = "idle"
  /\ cy' = cancelLookup(role, actor, sid, reason)
  /\ UNCHANGED <<dbVars, clockVars, events, issued, bk, cx, st, cb, dbUp>>

(* the paths of sessionSchema; timestamps are left out                     *)
sessionPaths == {"title", "speaker", "learner", "date", "time", "duration", "status",
                 "topics", "meetingLink"}

(* lines 590-594: the assignments to the loaded document                   *)
cancelledDocument(doc, c, t) ==
  [f \in DOMAIN doc \cup {"cancellationReason", "cancelledAt", "cancelledBy"} |->
     CASE f = "status" -> "cancelled"
       [] f = "cancellationReason" -> c.reason
       [] f = "cancelledAt" -> t
       [] f = "cancelledBy" -> c.actor
       [] OTHER -> doc[f]]

(* session.save(): a strict schema stores the paths it declares and drops  *)
(* every other property set on the document                                *)
save(doc) == [f \in DOMAIN doc \cap sessionPaths |-> doc[f]]

(* lines 590-603: session.save() and the answer                            *)
CancelSave ==
  /\ cx.pc = "save"
  /\ sessions' = [sessions EXCEPT ![cx.sid] = save(cancelledDocument(@, cx, now))]
  /\ cx' = [cx EXCEPT !.pc = "done", !.status = 200]
  /\ UNCHANGED <<googleCalendar, availability, clockVars, events, issued, bk, cy,
                 st, cb, dbUp>>

(* lines 590-603 for the second request                                    *)
CancelSaveOther ==
  /\ cy.pc = "save"
  /\ sessions' = [sessions EXCEPT ![cy.sid] = save(cancelledDocument(@, cy, now))]
  /\ cy' = [cy EXCEPT !.pc = "done", !.status = 200]
  /\ UNCHANGED <<googleCalendar, availability, clockVars, events, issued, bk, cx,
                 st, cb, dbUp>>

(* the completion of a scheduled session, done outside this code base      *)
CompleteSession(sid) ==
  /\ sid \in 1..Len(sessions)
  /\ sessions[sid].status = "scheduled"
  /\ sessions' = [sessions EXCEPT ![sid].status = "completed"]
  /\ UNCHANGED <<googleCalendar, availability, clockVars, events, issued, bk, cx, cy,
                 st, cb, dbUp>>

(* updateAvailability (speakerController.js lines 110-133): the speaker    *)
(* replaces the whole availability array                                   *)
UpdateAvailability(userId, week) ==
  /\ availability[userId] # week
  /\ availability' = [availability EXCEPT ![userId] = week]
  /\ UNCHANGED <<googleCalendar, sessions, clockVars, events, issued, bk, cx, cy, st, cb, dbUp>>

(* the passage of time                                                     *)
Tick ==
  /\ ticks < MaxTicks
  /\ \E d \in TickSteps : now' = now + d
  /\ ticks' = ticks + 1
  /\ UNCHANGED <<dbVars, events, issued, bk, cx, cy, st, cb, dbUp>>

(* the clock moving on by one of the given numbers of minutes              *)
Advance(steps) ==
  /\ ticks < MaxTicks
  /\ \E d \in steps : now' = now + d
  /\ ticks' = ticks + 1
  /\ UNCHANGED <<dbVars, events, issued, bk, cx, cy, st, cb, dbUp>>

(* the connection to the database going away or coming back                *)
DbFault ==
  /\ dbUp' = ~dbUp
  /\ UNCHANGED <<dbVars, clockVars, events, issued, bk, cx, cy, st, cb>>

----------------------------------------------------------------------------
Init ==
  /\ now = NowStart
  /\ ticks = 0
  /\ googleCalendar = [u \in Speakers |-> NoCredential]
  /\ availability = [u \in Speakers |-> WeekA]
  /\ sessions = <<>>
  /\ events = <<>>
  /\ issued = 0
  /\ bk = [r \in Slots |-> IdleBooking]
  /\ cx = IdleCancel
  /\ cy = IdleCancel
  /\ st = IdleStatus
  /\ cb = IdleCallback
  /\ dbUp = TRUE

(* a speaker who connected the calendar when the clock of the model starts *)
ConnectedCredential == [accessToken |-> 1, refreshToken |-> 2,
                        expiresAt |-> NowStart + TokenLifetime, connected |-> TRUE]

InitConnected ==
  /\ now = NowStart
  /\ ticks = 0
  /\ googleCalendar = [u \in Speakers |-> IF u = "sp1" THEN ConnectedCredential ELSE NoCredential]
  /\ availability = [u \in Speakers |-> WeekA]
  /\ sessions = <<>>
  /\ events = <<>>
  /\ issued = 2
  /\ bk = [r \in Slots |-> IdleBooking]
  /\ cx = IdleCancel
  /\ cy = IdleCancel
  /\ st = IdleStatus
  /\ cb = IdleCallback
  /\ dbUp = TRUE

----------------------------------------------------------------------------
(* The end of a request: the handler has answered and its locals are gone  *)

FinishBooking(r) ==
  /\ bk[r].pc = "done"
  /\ bk' = [bk EXCEPT ![r] = IdleBooking]
  /\ UNCHANGED <<dbVars, clockVars, events, issued, cx, cy, st, cb, dbUp>>

FinishCallback ==
  /\ cb.pc = "done"
  /\ cb' = IdleCallback
  /\ UNCHANGED <<dbVars, clockVars, events, issued, bk, cx, cy, st, dbUp>>

FinishStatus ==
  /\ st.pc = "done"
  /\ st' = IdleStatus
  /\ UNCHANGED <<dbVars, clockVars, events, issued, bk, cx, cy, cb, dbUp>>

FinishCancel ==
  /\ cx.pc = "done"
  /\ cx' = IdleCancel
  /\ UNCHANGED <<dbVars, clockVars, events, issued, bk, cy, st, cb, dbUp>>

FinishCancelOther ==
  /\ cy.pc = "done"
  /\ cy' = IdleCancel
  /\ UNCHANGED <<dbVars, clockVars, events, issued, bk, cx, st, cb, dbUp>>

InFlight == {r \in Slots : bk[r].pc # "idle"}

Quiescent ==
  /\ InFlight = {}
  /\ cx.pc = "idle"
  /\ cy.pc = "idle"
  /\ st.pc = "idle"
  /\ cb.pc = "idle"

RoomForSession == Len(sessions) + Cardinality(InFlight) < MaxSessions

----------------------------------------------------------------------------
(* One booking request at a time, in every shape the request can take      *)

GateBodies ==
  [speakerId : {"", "sp0", "sp1", "sp2"},
   title : {"", " ", "Talk"},
   date : {MissingDate, InvalidDate, OnDay(1)},
   time : {MissingTime, MalformedTime, HM(25, 0), HM(10, 0), HM(10, 15), HM(16, 45)},
   topics : {<<>>, <<"a", "b", "c">>}]

GateLearners == {"ln1", "gone"}

GateStartBooking ==
  /\ Quiescent
  /\ RoomForSession
  /\ \E learnerId \in GateLearners, body \in GateBodies : StartBooking(1, learnerId, body)

GateTick == Quiescent /\ Tick

NextGates ==
  \/ GateStartBooking
  \/ SpeakerLookup(1)
  \/ LearnerLookup(1)
  \/ ConflictCheck(1)
  \/ BookingRefresh(1)
  \/ BookingSaveTokens(1)
  \/ CalendarInsert(1)
  \/ CreateSession(1)
  \/ BookingRespond(1)
  \/ FinishBooking(1)
  \/ GateTick

SpecGates == InitConnected /\ [][NextGates]_vars

----------------------------------------------------------------------------
(* Bookings, cancellations and completions handled one at a time, while    *)
(* the token of the speaker is still valid                                 *)

SeqBodies ==
  [speakerId : {"sp1"},
   title : {" ", "Talk"},
   date : {OnDay(2)},
   time : {HM(10, 0), HM(10, 15), HM(10, 30)},
   topics : {<<>>}]

SeqStartBooking ==
  /\ Quiescent
  /\ RoomForSession
  /\ \E body \in SeqBodies : StartBooking(1, "ln1", body)

SeqStartCancel ==
  /\ Quiescent
  /\ \E sid \in 1..Len(sessions) :
       \/ StartCancel("learner", sessions[sid].learner, sid, "")
       \/ StartCancel("speaker", sessions[sid].speaker, sid, "")
       \/ StartCancel("learner", "ln2", sid, "")

SeqComplete == Quiescent /\ \E sid \in 1..Len(sessions) : CompleteSession(sid)

NextSeq ==
  \/ SeqStartBooking
  \/ SpeakerLookup(1)
  \/ LearnerLookup(1)
  \/ ConflictCheck(1)
  \/ CalendarInsert(1)
  \/ CreateSession(1)
  \/ BookingRespond(1)
  \/ FinishBooking(1)
  \/ SeqStartCancel
  \/ CancelSave
  \/ FinishCancel
  \/ SeqComplete

SpecSeq == InitConnected /\ [][NextSeq]_vars

----------------------------------------------------------------------------
(* Two learners booking the same speaker at the same time                  *)

RaceBodies ==
  [speakerId : {"sp1"}, title : {"Talk"}, date : {OnDay(2)},
   time : {HM(10, 0), HM(10, 15)}, topics : {<<>>}]

RaceLearner(r) == IF r = 1 THEN "ln1" ELSE "ln2"

RaceStartBooking(r) ==
  /\ RoomForSession
  /\ \E body \in RaceBodies : StartBooking(r, RaceLearner(r), body)

NextRace ==
  \E r \in Slots :
    \/ RaceStartBooking(r)
    \/ SpeakerLookup(r)
    \/ LearnerLookup(r)
    \/ ConflictCheck(r)
    \/ CalendarInsert(r)
    \/ CreateSession(r)
    \/ BookingRespond(r)
    \/ FinishBooking(r)

SpecRace == InitConnected /\ [][NextRace]_vars

----------------------------------------------------------------------------
(* The credential of a speaker: callbacks, status checks, disconnects and  *)
(* the token step of a booking, one request at a time                      *)

CredBody == [speakerId |-> "sp1", title |-> "Talk", date |-> OnDay(2), time |-> HM(10, 0),
             topics |-> <<>>]

CredStartBooking == Quiescent /\ RoomForSession /\ StartBooking(1, "ln1", CredBody)

CredStartCallback ==
  /\ Quiescent
  /\ \E code \in {"", "code"}, state \in {"", "sp1", "ghost"} : StartCallback(code, state)

CredDisconnect == Quiescent /\ DisconnectCalendar("sp1")

CredStartStatus == Quiescent /\ StartStatus("sp1")

CredTick == Quiescent /\ Tick

NextCred ==
  \/ CredStartBooking
  \/ SpeakerLookup(1)
  \/ LearnerLookup(1)
  \/ ConflictCheck(1)
  \/ BookingRefresh(1)
  \/ BookingSaveTokens(1)
  \/ CalendarInsert(1)
  \/ CreateSession(1)
  \/ BookingRespond(1)
  \/ FinishBooking(1)
  \/ CredStartCallback
  \/ CallbackExchange
  \/ CallbackWrite
  \/ FinishCallback
  \/ CredDisconnect
  \/ CredStartStatus
  \/ StatusRefresh
  \/ StatusSaveTokens
  \/ StatusMarkDisconnected
  \/ StatusReload
  \/ FinishStatus
  \/ CredTick

SpecCred == Init /\ [][NextCred]_vars

----------------------------------------------------------------------------
(* Bookings across the days of a week while the speaker edits the schedule *)

AvailBodies ==
  [speakerId : {"sp1"}, title : {"Talk"}, date : {OnDay(2), OnDay(3), OnDay(4)},
   time : {HM(8, 45), HM(9, 0), HM(16, 30), HM(16, 45), HM(23, 30)}, topics : {<<>>}]

AvailStartBooking ==
  /\ Quiescent
  /\ RoomForSession
  /\ \E body \in AvailBodies : StartBooking(1, "ln1", body)

AvailUpdate == Quiescent /\ \E week \in {WeekA, WeekB} : UpdateAvailability("sp1", week)

NextAvail ==
  \/ AvailStartBooking
  \/ SpeakerLookup(1)
  \/ LearnerLookup(1)
  \/ ConflictCheck(1)
  \/ CalendarInsert(1)
  \/ CreateSession(1)
  \/ BookingRespond(1)
  \/ FinishBooking(1)
  \/ AvailUpdate

SpecAvail == InitConnected /\ [][NextAvail]_vars

----------------------------------------------------------------------------
(* Cancellations by either party as the start of the session comes closer  *)

CancelBodies ==
  [speakerId : {"sp1"}, title : {"Talk"}, date : {OnDay(1), OnDay(2)},
   time : {HM(10, 0)}, topics : {<<>>}]

(* five minutes, and four hours and five minutes                           *)
CancelSteps == {5, 245}

CancelActors == {<<"learner", "ln1">>, <<"learner", "ln2">>,
                 <<"speaker", "sp1">>, <<"speaker", "sp2">>}

CancelStartBooking ==
  /\ Quiescent
  /\ RoomForSession
  /\ \E body \in CancelBodies : StartBooking(1, "ln1", body)

CancelStart ==
  /\ Quiescent
  /\ \E sid \in 1..(Len(sessions) + 1), a \in CancelActors, reason \in {"", "ill"} :
       StartCancel(a[1], a[2], sid, reason)

CancelComplete == Quiescent /\ \E sid \in 1..Len(sessions) : CompleteSession(sid)

CancelTick == Quiescent /\ Advance(CancelSteps)

NextCancel ==
  \/ CancelStartBooking
  \/ SpeakerLookup(1)
  \/ LearnerLookup(1)
  \/ ConflictCheck(1)
  \/ BookingRefresh(1)
  \/ BookingSaveTokens(1)
  \/ CalendarInsert(1)
  \/ CreateSession(1)
  \/ BookingRespond(1)
  \/ FinishBooking(1)
  \/ CancelStart
  \/ CancelSave
  \/ FinishCancel
  \/ CancelComplete
  \/ CancelTick

SpecCancel == InitConnected /\ [][NextCancel]_vars

----------------------------------------------------------------------------
(* Bookings while the connection to the database comes and goes            *)

FaultBodies ==
  [speakerId : {"sp1"}, title : {" ", "Talk"}, date : {OnDay(2)},
   time : {HM(10, 0), HM(10, 15), HM(10, 30)}, topics : {<<>>}]

FaultStartBooking ==
  /\ Quiescent
  /\ RoomForSession
  /\ \E body \in FaultBodies : StartBooking(1, "ln1", body)

NextFault ==
  \/ FaultStartBooking
  \/ SpeakerLookup(1)
  \/ LearnerLookup(1)
  \/ ConflictCheck(1)
  \/ CalendarInsert(1)
  \/ CreateSession(1)
  \/ BookingRespond(1)
  \/ FinishBooking(1)
  \/ DbFault

SpecFault == InitConnected /\ [][NextFault]_vars

----------------------------------------------------------------------------
(* Requests that need a token, one right after the other: a request starts *)
(* when no other is running, the answers of the finished bookings are kept *)

Settled ==
  /\ \A r \in Slots : bk[r].pc \in {"idle", "done"}
  /\ st.pc \in {"idle", "done"}

IdemBody(r) == [CredBody EXCEPT !.time = IF r = 1 THEN HM(10, 0) ELSE HM(10, 30)]

IdemStartBooking(r) ==
  /\ Settled
  /\ Len(sessions) < MaxSessions
  /\ StartBooking(r, RaceLearner(r), IdemBody(r))

IdemStartStatus == Settled /\ StartStatus("sp1")

IdemTick == Quiescent /\ Tick

NextIdem ==
  \/ \E r \in Slots :
       \/ IdemStartBooking(r)
       \/ SpeakerLookup(r)
       \/ LearnerLookup(r)
       \/ ConflictCheck(r)
       \/ BookingRefresh(r)
       \/ BookingSaveTokens(r)
       \/ CalendarInsert(r)
       \/ CreateSession(r)
       \/ BookingRespond(r)
  \/ IdemStartStatus
  \/ StatusRefresh
  \/ StatusSaveTokens
  \/ StatusMarkDisconnected
  \/ StatusReload
  \/ FinishStatus
  \/ IdemTick

SpecIdem == InitConnected /\ [][NextIdem]_vars

----------------------------------------------------------------------------
(* Both parties of a session cancelling it at the same time, while the     *)
(* session may be completed from outside                                   *)

BothStartBooking ==
  /\ RoomForSession
  /\ \E r \in Slots : StartBooking(1, "ln1", IdemBody(r))

BothStartCancel ==
  \E sid \in 1..Len(sessions), reason \in {"", "ill"} :
    \/ StartCancel("learner", sessions[sid].learner, sid, reason)
    \/ StartCancelOther("speaker", sessions[sid].speaker, sid, reason)

BothComplete == \E sid \in 1..Len(sessions) : CompleteSession(sid)

NextBoth ==
  \/ BothStartBooking
  \/ SpeakerLookup(1)
  \/ LearnerLookup(1)
  \/ ConflictCheck(1)
  \/ CalendarInsert(1)
  \/ CreateSession(1)
  \/ BookingRespond(1)
  \/ FinishBooking(1)
  \/ BothStartCancel
  \/ CancelSave
  \/ CancelSaveOther
  \/ FinishCancel
  \/ FinishCancelOther
  \/ BothComplete

SpecBoth == InitConnected /\ [][NextBoth]_vars

----------------------------------------------------------------------------
(* Bookings with every shape of topic list                                 *)

TopicLists == {<<>>, <<"a">>, <<"a", "b">>, <<" ", "">>, <<"", "a", " ", "b">>,
               <<"a", "b", "c">>, <<"a", "", "b", "c">>}

TopicBodies ==
  [speakerId : {"sp1"}, title : {"Talk"}, date : {OnDay(2)},
   time : {HM(10, 0), HM(10, 30)}, topics : TopicLists]

TopicStartBooking ==
  /\ Quiescent
  /\ RoomForSession
  /\ \E body \in TopicBodies : StartBooking(1, "ln1", body)

NextTopics ==
  \/ TopicStartBooking
  \/ SpeakerLookup(1)
  \/ LearnerLookup(1)
  \/ ConflictCheck(1)
  \/ CalendarInsert(1)
  \/ CreateSession(1)
  \/ BookingRespond(1)
  \/ FinishBooking(1)

SpecTopics == InitConnected /\ [][NextTopics]_vars

----------------------------------------------------------------------------
(* A booking and a status check of one speaker whose token has run out,   *)
(* both in flight at the same time                                         *)

TokenRunOut == bookingNeedsRefresh(googleCalendar["sp1"].expiresAt, now)

StaleStartBooking ==
  /\ TokenRunOut
  /\ RoomForSession
  /\ StartBooking(1, "ln1", CredBody)

StaleStartStatus == TokenRunOut /\ StartStatus("sp1")

StaleTick == Quiescent /\ Tick

NextStale ==
  \/ StaleStartBooking
  \/ SpeakerLookup(1)
  \/ LearnerLookup(1)
  \/ ConflictCheck(1)
  \/ BookingRefresh(1)
  \/ BookingSaveTokens(1)
  \/ CalendarInsert(1)
  \/ CreateSession(1)
  \/ BookingRespond(1)
  \/ FinishBooking(1)
  \/ StaleStartStatus
  \/ StatusRefresh
  \/ StatusSaveTokens
  \/ StatusMarkDisconnected
  \/ StatusReload
  \/ FinishStatus
  \/ StaleTick

SpecStale == InitConnected /\ [][NextStale]_vars

----------------------------------------------------------------------------
(* A booking and a status check whose steps are always taken in the end:   *)
(* every call to the provider and to the database returns or times out     *)

BookingStep ==
  \/ SpeakerLookup(1)
  \/ LearnerLookup(1)
  \/ ConflictCheck(1)
  \/ BookingRefresh(1)
  \/ BookingSaveTokens(1)
  \/ CalendarInsert(1)
  \/ CreateSession(1)
  \/ BookingRespond(1)

StatusStep ==
  \/ StatusRefresh
  \/ StatusSaveTokens
  \/ StatusMarkDisconnected
  \/ StatusReload

NextLive ==
  \/ Quiescent /\ StaleStartBooking
  \/ BookingStep
  \/ FinishBooking(1)
  \/ Quiescent /\ StaleStartStatus
  \/ StatusStep
  \/ FinishStatus
  \/ StaleTick

SpecLive ==
  /\ InitConnected
  /\ [][NextLive]_vars
  /\ WF_vars(BookingStep)
  /\ WF_vars(StatusStep)

----------------------------------------------------------------------------
(* The speaker disconnecting the calendar while a booking or a status      *)
(* check that needs a fresh token is in flight; the other requests run one *)
(* at a time                                                               *)

NextUnplug ==
  \/ Quiescent /\ StaleStartBooking
  \/ SpeakerLookup(1)
  \/ LearnerLookup(1)
  \/ ConflictCheck(1)
  \/ BookingRefresh(1)
  \/ BookingSaveTokens(1)
  \/ CalendarInsert(1)
  \/ CreateSession(1)
  \/ BookingRespond(1)
  \/ FinishBooking(1)
  \/ Quiescent /\ StaleStartStatus
  \/ StatusRefresh
  \/ StatusSaveTokens
  \/ StatusMarkDisconnected
  \/ StatusReload
  \/ FinishStatus
  \/ DisconnectCalendar("sp1")
  \/ CredStartCallback
  \/ CallbackExchange
  \/ CallbackWrite
  \/ FinishCallback
  \/ StaleTick

SpecUnplug == InitConnected /\ [][NextUnplug]_vars

----------------------------------------------------------------------------
(* Bookings for a speaker who stored two entries for one day of the week   *)

TwiceUpdate == Quiescent /\ \E week \in {WeekC, WeekD} : UpdateAvailability("sp1", week)

NextTwice ==
  \/ AvailStartBooking
  \/ SpeakerLookup(1)
  \/ LearnerLookup(1)
  \/ ConflictCheck(1)
  \/ CalendarInsert(1)
  \/ CreateSession(1)
  \/ BookingRespond(1)
  \/ FinishBooking(1)
  \/ TwiceUpdate

SpecTwice == InitConnected /\ [][NextTwice]_vars

----------------------------------------------------------------------------
(* Properties                                                              *)

Range(seq) == {seq[i] : i \in 1..Len(seq)}

IsPrefix(a, b) == Len(a) <= Len(b) /\ SubSeq(b, 1, Len(a)) = a

SameDay(i1, i2) == i1 \div MinutesPerDay = i2 \div MinutesPerDay

(* C1: no two scheduled sessions of one speaker on the same calendar date  *)
(* have overlapping [time, time+30min) windows, in every reachable state.  *)
C1_NoDoubleBooking ==
  \A i, j \in 1..Len(sessions) :
    (/\ i < j
     /\ sessions[i].speaker = sessions[j].speaker
     /\ sessions[i].status = "scheduled"
     /\ sessions[j].status = "scheduled"
     /\ SameDay(sessions[i].date, sessions[j].date))
    => LET si == timeToMinutes(sessions[i].time)
           sj == timeToMinutes(sessions[j].time)
       IN  si + SessionDuration <= sj \/ sj + SessionDuration <= si

(* some scheduled session of the speaker on the day of the request whose   *)
(* window intersects the requested one                                     *)
Blocked(b) ==
  \E i \in 1..Len(sessions) :
    LET candidateStart == timeToMinutes(b.body.time)
        candidateEnd == candidateStart + SessionDuration
        existingStart == timeToMinutes(sessions[i].time)
        existingEnd == existingStart + SessionDuration
    IN  /\ sessions[i].speaker = b.body.speakerId
        /\ SameDay(sessions[i].date, b.sessionDate)
        /\ sessions[i].status = "scheduled"
        /\ candidateStart < existingEnd
        /\ candidateEnd > existingStart

(* C2: with requests handled one at a time, the conflict check rejects a   *)
(* booking as SlotTaken exactly when a scheduled session of the speaker on *)
(* that date intersects the requested window (touching windows and         *)
(* cancelled or completed sessions do not block), and a rejected booking   *)
(* creates no session.                                                     *)
C2_SlotTakenIffOverlap ==
  /\ [][\A r \in Slots :
          (bk[r].pc = "findSessions" /\ bk'[r].pc # "findSessions")
          => /\ (bk'[r].pc = "done" /\ bk'[r].res.error = "SlotTaken") <=> Blocked(bk[r])
             /\ Blocked(bk[r]) => sessions' = sessions]_vars
  /\ [](\A r \in Slots :
          (bk[r].pc = "done" /\ bk[r].res.error = "SlotTaken")
          => bk[r].session = 0 /\ "sessionCreate" \notin Range(bk[r].log))

(* a session that was cancelled or completed and a later session of the    *)
(* same speaker and day in an intersecting window                          *)
C2_Witness ==
  \E i, j \in 1..Len(sessions) :
    /\ i < j
    /\ sessions[i].status \in {"cancelled", "completed"}
    /\ sessions[j].status = "scheduled"
    /\ sessions[i].speaker = sessions[j].speaker
    /\ SameDay(sessions[i].date, sessions[j].date)
    /\ sessions[i].time = sessions[j].time

BadTime(t) == t.kind = "malformed" \/ (t.kind = "hm" /\ (t.h > 23 \/ t.m > 59))

(* C3: a booking request whose time is malformed or outside 00:00-23:59 is *)
(* rejected before any lookup: it performs no speaker and no learner query.*)
C3_BadTimeBeforeLookup ==
  \A r \in Slots :
    BadTime(bk[r].body.time)
    => /\ "speakerQuery" \notin Range(bk[r].log)
       /\ "learnerQuery" \notin Range(bk[r].log)

GateOrder == <<"speakerQuery", "connectedCheck", "learnerQuery", "availabilityCheck",
               "sessionQuery", "conflictCheck", "tokenAcquire", "calendarCall", "sessionCreate">>

GateLog(log) == SelectSeq(log, LAMBDA e : e \in Range(GateOrder))

(* the gate a failure response comes from                                  *)
GateOf(error) ==
  CASE error = "SpeakerUnavailable" -> "speakerQuery"
    [] error = "CalendarNotConnected" -> "connectedCheck"
    [] error = "LearnerNotFound" -> "learnerQuery"
    [] error \in {"NotAvailableThatDay", "OutsideAvailability"} -> "availabilityCheck"
    [] error = "SlotTaken" -> "conflictCheck"
    [] error = "CalendarAuthFailure" -> "tokenAcquire"
    [] error = "ValidationError" -> "sessionCreate"
    [] OTHER -> "none"

PassedFieldValidation(b) ==
  b.pc # "idle" /\ b.res.error \notin {"MissingFields", "TooManyTopics"}

(* C4: the gates of a booking run in the order speaker lookup, connection  *)
(* check, learner lookup, availability, conflict, token, calendar event,   *)
(* persistence; a failure response comes from the last gate that ran, so a *)
(* request failing several gates reports the earliest; a speaker that is   *)
(* not connected yields CalendarNotConnected before any availability check.*)
C4_GateOrder ==
  \A r \in Slots :
    LET b == bk[r]
        gates == GateLog(b.log)
    IN  /\ IsPrefix(gates, GateOrder)
        /\ (b.pc = "done" /\ GateOf(b.res.error) # "none")
           => gates # <<>> /\ gates[Len(gates)] = GateOf(b.res.error)
        /\ (b.pc = "done" /\ b.res.status = 201) => gates = GateOrder
        /\ (b.pc = "done" /\ PassedFieldValidation(b))
           => /\ b.body.speakerId = "sp0" => b.res.error = "SpeakerUnavailable"
              /\ (b.body.speakerId = "sp2" /\ ~googleCalendar["sp2"].connected)
                 => /\ b.res.error = "CalendarNotConnected"
                    /\ "availabilityCheck" \notin Range(b.log)
                    /\ "learnerQuery" \notin Range(b.log)
              /\ (b.body.speakerId = "sp1" /\ ~UserExists(b.learnerId)
                    /\ b.speaker.googleCalendar.connected)
                 => b.res.error = "LearnerNotFound"

(* a request for an unconnected speaker, by a learner that does not exist, *)
(* for a time outside the availability window, answered CalendarNotConnected *)
C4_Witness ==
  \E r \in Slots :
    /\ bk[r].pc = "done"
    /\ bk[r].body.speakerId = "sp2"
    /\ bk[r].learnerId = "gone"
    /\ bk[r].body.time = HM(16, 45)
    /\ bk[r].res.error = "CalendarNotConnected"

CalendarFailed(b) == "calendarCall" \in Range(b.log) /\ ~b.calendarResult.success

(* C5: when the calendar provider call fails during a booking that passed  *)
(* the gates before it, the booking is not failed for it: the request goes *)
(* on to persistence, and once the session record is accepted the session  *)
(* is stored with status scheduled and the response is a success that      *)
(* reports calendar.created = false.                                       *)
C5_CalendarFailureNotPropagated ==
  \A r \in Slots :
    LET b == bk[r] IN
    CalendarFailed(b)
    => /\ b.pc \in {"create", "populate", "done"}
       /\ (b.pc \in {"populate", "done"} /\ sessionValid(b.body.title))
          => /\ b.session \in 1..Len(sessions)
             /\ sessions[b.session].speaker = b.body.speakerId
             /\ sessions[b.session].learner = b.learnerId
             /\ sessions[b.session].date = b.sessionDate
             /\ sessions[b.session].status = "scheduled"
       /\ (b.pc = "done" /\ sessionValid(b.body.title))
          => /\ b.res.status = 201
             /\ b.res.created = FALSE
             /\ b.res.session = b.session

C5_Witness ==
  \E r \in Slots :
    /\ bk[r].pc = "done"
    /\ CalendarFailed(bk[r])
    /\ bk[r].res.status = 201
    /\ bk[r].res.created = FALSE

(* https://meet.google.com/xxx-xxx-xxx: three groups of three letters      *)
IsFallbackLink(link) ==
  /\ link.host = MeetHost
  /\ Len(link.code) = 3
  /\ \A i \in 1..Len(link.code) : Len(link.code[i]) = 3

(* C6: when the calendar provider call fails during booking, the meeting   *)
(* link stored in the session and returned in the response is a locally    *)
(* generated link of the form https://meet.google.com/xxx-xxx-xxx.         *)
C6_FallbackLinkForm ==
  \A r \in Slots :
    LET b == bk[r] IN
    (CalendarFailed(b) /\ b.pc = "done" /\ b.res.status = 201)
    => /\ IsFallbackLink(sessions[b.session].meetingLink)
       /\ IsFallbackLink(b.res.meetLink)

InsideBuffer(expiresAt, t) == expiresAt # NoDate /\ t >= expiresAt - RefreshBufferMin

(* C7: every token acquisition before a calendar call, in bookSession and  *)
(* in getValidOAuthClient, attempts a refresh whenever                     *)
(* now >= expiresAt - 5 minutes.                                           *)
C7_RefreshInsideBuffer ==
  [][/\ \A r \in Slots :
          (/\ bk[r].pc = "findSessions"
           /\ bk'[r].pc \in {"refresh", "calendar"}
           /\ InsideBuffer(bk[r].speaker.googleCalendar.expiresAt, now))
          => bk'[r].pc = "refresh"
     /\ (/\ st.pc = "idle"
         /\ st'.pc \in {"refresh", "reload"}
         /\ InsideBuffer(st'.user.expiresAt, now))
        => st'.pc = "refresh"]_vars

Unusable(credential) ==
  \/ ~credential.connected
  \/ credential.accessToken = NoToken
  \/ credential.refreshToken = NoToken

(* C8: token acquisition fails with NotConnected, making no refresh call   *)
(* and no calendar call, whenever the credential has connected = false or  *)
(* a null access or refresh token, in getValidOAuthClient and in the token *)
(* step of bookSession.                                                    *)
C8_UnusableCredentialStops ==
  /\ \A r \in Slots :
       (bk[r].speaker # NoSpeaker /\ Unusable(bk[r].speaker.googleCalendar))
       => /\ "refreshCall" \notin Range(bk[r].log)
          /\ "calendarCall" \notin Range(bk[r].log)
          /\ bk[r].pc \notin {"refresh", "saveTokens", "calendar", "create", "populate"}
  /\ (st.pc # "idle" /\ Unusable(st.user))
     => /\ "refreshCall" \notin Range(st.log)
        /\ st.pc = "done"
        /\ ~st.res.tokenValid

(* C9: in every reachable state of a credential record, connected = true   *)
(* implies that accessToken and refreshToken are both non-null.            *)
C9_ConnectedHasTokens ==
  \A u \in Speakers :
    googleCalendar[u].connected
    => googleCalendar[u].accessToken # NoToken /\ googleCalendar[u].refreshToken # NoToken

Backoff == <<BaseDelayMs, 2 * BaseDelayMs>>

RetryBounded(rt) ==
  /\ rt.calls <= 3
  /\ IsPrefix(rt.waits, Backoff)
  /\ rt.state = "run" => rt.calls = Len(rt.waits)
  /\ (rt.state = "run" /\ rt.calls > 0) => rt.error \in TransientCodes
  /\ rt.state = "ok" => rt.calls = Len(rt.waits) + 1
  /\ rt.state = "thrown" => rt.calls = Len(rt.waits) + 1
  /\ (rt.state = "thrown" /\ rt.error \in TransientCodes) => rt.calls = 3

(* C10: a token refresh calls the provider at most 3 times; it re-attempts *)
(* only after a transient network error, waiting 1s then 2s, and fails at  *)
(* the first non-transient error, one attempt after the transient ones.    *)
C10_RefreshRetryBounded ==
  /\ \A r \in Slots : RetryBounded(bk[r].retry)
  /\ RetryBounded(st.retry)

(* a refresh that failed on an invalid token after two transient failures  *)
C10_Witness ==
  \/ \E r \in Slots : /\ bk[r].retry.state = "thrown"
                      /\ bk[r].retry.error = "invalid_grant"
                      /\ bk[r].retry.waits = Backoff
  \/ /\ st.retry.state = "thrown"
     /\ st.retry.error = "invalid_grant"
     /\ st.retry.waits = Backoff

(* C11: after an operation (getCalendarStatus or bookSession) whose token  *)
(* refresh failed with a non-transient invalid or revoked token error, the *)
(* credential record of the speaker has connected = false.                 *)
C11_InvalidTokenDisconnects ==
  /\ \A r \in Slots :
       (/\ bk[r].pc = "done"
        /\ bk[r].retry.state = "thrown"
        /\ bk[r].retry.error = "invalid_grant")
       => ~googleCalendar[bk[r].body.speakerId].connected
  /\ (/\ st.pc = "done"
      /\ st.retry.state = "thrown"
      /\ st.retry.error = "invalid_grant")
     => ~googleCalendar[st.userId].connected

(* the HTTP status the error taxonomy gives to each failure                *)
StatusOfClass(error) ==
  CASE error \in {"MissingFields", "TooManyTopics", "InvalidTimeFormat", "InvalidTime",
                  "InvalidDate", "InThePast", "NotAvailableThatDay", "OutsideAvailability",
                  "SlotTaken", "CalendarNotConnected"} -> 400
    [] error \in {"SpeakerUnavailable", "LearnerNotFound"} -> 404
    [] error = "CalendarAuthFailure" -> 503
    [] error \in {"NotCancellable", "AlreadyStarted", "TooLateToCancel"} -> 400
    [] OTHER -> 0

(* C12: every failure response carries the HTTP status of its error class: *)
(* a booking answers 400 for validation and conflict failures, 404 for a   *)
(* speaker or learner not found and 503 when token acquisition fails; a    *)
(* cancellation answers 400 for not-cancellable, already-started and       *)
(* too-late-to-cancel.                                                     *)
C12_StatusOfErrorClass ==
  /\ \A r \in Slots :
       (bk[r].pc = "done" /\ StatusOfClass(bk[r].res.error) # 0)
       => bk[r].res.status = StatusOfClass(bk[r].res.error)
  /\ (cx.pc = "done" /\ StatusOfClass(cx.error) # 0)
     => cx.status = StatusOfClass(cx.error)

(* the requested [start, start+30) lies inside the window of an available  *)
(* entry of the requested day of week                                      *)
FitsAvailability(b) ==
  \E i \in 1..Len(b.speaker.availability) :
    LET entry == b.speaker.availability[i]
        candidateStart == b.body.time.h * 60 + b.body.time.m
        startMinutes == IF entry.startTime.kind = "hm"
                        THEN entry.startTime.h * 60 + entry.startTime.m ELSE 0
        endMinutes == IF entry.endTime.kind = "hm"
                      THEN entry.endTime.h * 60 + entry.endTime.m ELSE 23 * 60 + 59
    IN  /\ entry.day = dayNames[(b.body.date.d % 7) + 1]
        /\ entry.isAvailable
        /\ candidateStart >= startMinutes
        /\ candidateStart + SessionDuration <= endMinutes

AvailabilityErrors == {"NotAvailableThatDay", "OutsideAvailability"}

CancellableBy(sid, role, actor) ==
  /\ sid \in 1..Len(sessions)
  /\ \/ role = "learner" /\ sessions[sid].learner = actor
     \/ role = "speaker" /\ sessions[sid].speaker = actor
  /\ sessions[sid].status = "scheduled"

(* C14: cancelSession, in both variants, changes a session only when it    *)
(* belongs to the acting party in the matching role and is scheduled; for  *)
(* a session of someone else, or one already cancelled or completed, it    *)
(* fails NotCancellable and leaves the session records unchanged.          *)
C14_CancelOnlyOwnScheduled ==
  [][/\ (/\ cx.pc = "idle"
         /\ cx'.pc # "idle"
         /\ ~CancellableBy(cx'.sid, cx'.role, cx'.actor))
        => /\ cx'.pc = "done"
           /\ cx'.error = "NotCancellable"
           /\ sessions' = sessions
     /\ (cx.pc # "idle" /\ sessions' # sessions)
        => /\ CancellableBy(cx.sid, cx.role, cx.actor)
           /\ Len(sessions') = Len(sessions)
           /\ \A i \in 1..Len(sessions) : i # cx.sid => sessions'[i] = sessions[i]]_vars

(* the other party's learner tried to cancel; the session is still there   *)
C14_Witness ==
  /\ cx.pc = "done"
  /\ cx.error = "NotCancellable"
  /\ cx.sid \in 1..Len(sessions)
  /\ sessions[cx.sid].status = "scheduled"
  /\ cx.role = "learner"
  /\ sessions[cx.sid].learner # cx.actor

(* the start instant of a session: its calendar date at its time of day    *)
StartOf(s) == (s.date \div MinutesPerDay) * MinutesPerDay + s.time.h * 60 + s.time.m

(* a number of minutes as hours rounded to one decimal, in tenths          *)
HoursToOneDecimal(minutes) ==
  CHOOSE k \in 0..(10 * CancellationMinHours) : 6 * k - 3 <= minutes /\ minutes < 6 * k + 3

(* C15: for an owned scheduled session cancelSession succeeds exactly when *)
(* start - now >= 24 hours; a start that is not in the future fails        *)
(* AlreadyStarted; 0 < start - now < 24h fails TooLateToCancel carrying    *)
(* the remaining hours rounded to one decimal; a refused cancellation      *)
(* leaves the session scheduled and unchanged.                             *)
C15_CancellationNotice ==
  [][/\ (/\ cx.pc = "idle"
         /\ cx'.pc # "idle"
         /\ CancellableBy(cx'.sid, cx'.role, cx'.actor))
        => LET remaining == StartOf(sessions[cx'.sid]) - now
           IN  /\ sessions' = sessions
               /\ remaining >= 24 * 60 <=> cx'.pc = "save"
               /\ remaining <= 0 => cx'.pc = "done" /\ cx'.error = "AlreadyStarted"
               /\ (0 < remaining /\ remaining < 24 * 60)
                  => /\ cx'.pc = "done"
                     /\ cx'.error = "TooLateToCancel"
                     /\ cx'.hoursUntilSession = HoursToOneDecimal(remaining)
     /\ (cx.pc = "save" /\ cx'.pc # "save")
        => /\ cx'.pc = "done"
           /\ cx'.status = 200
           /\ sessions'[cx.sid].status = "cancelled"
     /\ (cx.pc = "done" /\ cx.error \in {"AlreadyStarted", "TooLateToCancel"} /\ cx'.pc = "idle")
        => sessions[cx.sid].status = "scheduled"]_vars

(* a cancellation 20 hours before the start, refused with 20.0 hours       *)
C15_Witness ==
  /\ cx.pc = "done"
  /\ cx.error = "TooLateToCancel"
  /\ StartOf(sessions[cx.sid]) - now = 20 * 60
  /\ cx.hoursUntilSession = 200
  /\ sessions[cx.sid].status = "scheduled"

(* C16: after a successful cancelSession the stored session record has     *)
(* status cancelled, cancellationReason equal to the given reason (empty   *)
(* when none), cancelledAt equal to the time of the cancellation and       *)
(* cancelledBy equal to the acting party, so that a later read returns     *)
(* these four values.                                                      *)
C16_CancellationRecorded ==
  (cx.pc = "done" /\ cx.status = 200)
  => LET stored == sessions[cx.sid]
     IN  /\ stored.status = "cancelled"
         /\ {"cancellationReason", "cancelledAt", "cancelledBy"} \subseteq DOMAIN stored
         /\ stored.cancellationReason = cx.reason
         /\ stored.cancelledAt = now
         /\ stored.cancelledBy = cx.actor

(* the request has stored its session record                               *)
Persisted(b) == "sessionCreate" \in Range(b.log) /\ b.session \in 1..Len(sessions)

(* C17: once a booking request has persisted its session record it ends    *)
(* with a success response: no later step (populating the speaker,         *)
(* building the response) turns it into a failure while the session exists.*)
C17_NoFailureAfterPersistence ==
  \A r \in Slots :
    (bk[r].pc = "done" /\ Persisted(bk[r])) => bk[r].res.status = 201

(* a usable credential whose token expires later than the refresh buffer   *)
Fresh(credential, t) ==
  /\ credential.connected
  /\ credential.accessToken # NoToken
  /\ credential.refreshToken # NoToken
  /\ credential.expiresAt # NoDate
  /\ t < credential.expiresAt - RefreshBufferMin

(* the token acquisitions made by the requests of the current state: the   *)
(* credential each one read, the calls it logged, the token it came to use *)
Acquisitions ==
  {[credential |-> bk[r].speaker.googleCalendar, log |-> bk[r].log,
    token |-> bk[r].client.accessToken, speaker |-> bk[r].body.speakerId] :
      r \in {q \in Slots : "tokenAcquire" \in Range(bk[q].log)}}
  \cup
  (IF "tokenAcquire" \in Range(st.log) /\ st.pc \in {"reload", "done"}
   THEN {[credential |-> st.user, log |-> st.log,
          token |-> IF st.refreshedTokens.accessToken # NoToken
                    THEN st.refreshedTokens.accessToken ELSE st.user.accessToken,
          speaker |-> st.userId]}
   ELSE {})

(* C18: token acquisitions in immediate succession for a credential whose  *)
(* token is valid and outside the 5-minute buffer make no refresh call,    *)
(* come to the same access token, and leave the stored credential as it    *)
(* was.                                                                    *)
C18_AcquisitionIdempotent ==
  /\ \A a \in Acquisitions :
       Fresh(a.credential, now)
       => /\ "refreshCall" \notin Range(a.log)
          /\ "tokenWrite" \notin Range(a.log)
          /\ a.token = a.credential.accessToken
          /\ googleCalendar[a.speaker] = a.credential
  /\ \A a, b \in Acquisitions :
       (Fresh(a.credential, now) /\ Fresh(b.credential, now) /\ a.speaker = b.speaker)
       => a.token = b.token

(* a status check and two bookings, one after the other, on a fresh token  *)
C18_Witness ==
  /\ st.pc = "done"
  /\ st.res.tokenValid
  /\ Fresh(st.user, now)
  /\ \A r \in Slots : "tokenAcquire" \in Range(bk[r].log) /\ Fresh(bk[r].speaker.googleCalendar, now)
  /\ \A r \in Slots : bk[r].client.accessToken = st.user.accessToken
  /\ Cardinality(Acquisitions) = 3

(* the times of day of the stored sessions and of the requests under way   *)
SlotsSeen ==
  {sessions[i].time : i \in 1..Len(sessions)}
  \cup {bk[r].body.time : r \in {q \in Slots : bk[q].pc # "idle" /\ bk[q].body.time.kind = "hm"}}

(* the conflict loop reports the candidate against one existing session    *)
ConflictReported(candidate, existing) ==
  firstConflict(<<[time |-> existing]>>, timeToMinutes(candidate)) # MissingTime

(* C19: the overlap test of the conflict check is symmetric: for any two   *)
(* 30-minute slots A and B of one speaker on one date, A is reported as    *)
(* conflicting with an existing B exactly when B would be reported as      *)
(* conflicting with an existing A.                                         *)
C19_OverlapSymmetric ==
  /\ \A A, B \in SlotsSeen : ConflictReported(A, B) <=> ConflictReported(B, A)
  /\ \A r \in Slots :
       (bk[r].pc = "done" /\ bk[r].res.error = "SlotTaken")
       => \E i \in 1..Len(sessions) :
            /\ sessions[i].status = "scheduled"
            /\ ConflictReported(bk[r].body.time, sessions[i].time)
            /\ ConflictReported(sessions[i].time, bk[r].body.time)

(* a request for 10:00 refused because of a session at 10:15, which the    *)
(* request starts before                                                   *)
C19_Witness ==
  \E r \in Slots :
    /\ bk[r].pc = "done"
    /\ bk[r].res.error = "SlotTaken"
    /\ bk[r].body.time = HM(10, 0)
    /\ \E i \in 1..Len(sessions) : sessions[i].time = HM(10, 15) /\ sessions[i].status = "scheduled"
    /\ \A i \in 1..Len(sessions) : sessions[i].time # HM(10, 0)

(* a token of the speaker that was stored is null after the step           *)
TokenCleared(u) ==
  \/ googleCalendar[u].accessToken # NoToken /\ googleCalendar'[u].accessToken = NoToken
  \/ googleCalendar[u].refreshToken # NoToken /\ googleCalendar'[u].refreshToken = NoToken

----------------------------------------------------------------------------
----------------------------------------------------------------------------
(* the failures of the gates that come before the token of the speaker is  *)
(* acquired                                                                *)
PreTokenErrors ==
  {"MissingFields", "TooManyTopics", "SpeakerUnavailable", "CalendarNotConnected",
   "LearnerNotFound", "InvalidTimeFormat", "InvalidTime", "InvalidDate", "InThePast",
   "NotAvailableThatDay", "OutsideAvailability", "SlotTaken"}

PreTokenPcs == {"idle", "findSpeaker", "findLearner", "findSessions"}

EffectEntries == {"refreshCall", "tokenWrite", "calendarCall", "sessionCreate"}

(* C22: a booking that fails at a gate before token acquisition changes    *)
(* nothing: the steps up to and including the conflict check create no     *)
(* session, write no credential field and call the provider neither for a  *)
(* refresh nor for an event, a request answered with the failure of such a *)
(* gate has done none of these, and a refresh is called only after every   *)
(* one of those gates has passed.                                          *)
C22_GateFailureChangesNothing ==
  /\ [][\A r \in Slots :
          (bk[r].pc \in PreTokenPcs /\ bk'[r] # bk[r])
          => UNCHANGED <<googleCalendar, sessions, events, issued>>]_vars
  /\ [](\A r \in Slots :
          (bk[r].pc = "done" /\ bk[r].res.error \in PreTokenErrors)
          => /\ Range(bk[r].log) \cap EffectEntries = {}
             /\ bk[r].session = 0)
  /\ [](\A r \in Slots :
          "refreshCall" \in Range(bk[r].log)
          => /\ IsPrefix(SubSeq(GateOrder, 1, 7), GateLog(bk[r].log))
             /\ {"validateFields", "timeCheck"} \subseteq Range(bk[r].log))

(* a request refused for a taken slot at a moment when the token of the    *)
(* speaker it read has expired                                             *)
C22_Witness ==
  \E r \in Slots :
    /\ bk[r].pc = "done"
    /\ bk[r].res.error = "SlotTaken"
    /\ bookingNeedsRefresh(bk[r].speaker.googleCalendar.expiresAt, now)

----------------------------------------------------------------------------
(* C23: a successful refresh in bookSession yields the token the provider  *)
(* has just issued; storing it replaces accessToken and expiresAt of the   *)
(* speaker and leaves refreshToken and connected alone, and the calendar   *)
(* event of that request is created with the new access token; a failed    *)
(* refresh leaves the stored credential unchanged and the request creates  *)
(* neither a calendar event nor a session.                                 *)
C23_RefreshEffect ==
  /\ [][\A r \in Slots :
          LET b == bk[r]
              speakerId == b.body.speakerId
          IN  /\ (b.pc = "refresh" /\ bk'[r].pc = "saveTokens")
                 => /\ issued' = issued + 1
                    /\ bk'[r].refreshedTokens.accessToken = issued'
                    /\ UNCHANGED <<googleCalendar, events, sessions>>
              /\ (b.pc = "saveTokens" /\ bk'[r].pc # "saveTokens")
                 => /\ googleCalendar' = [googleCalendar EXCEPT ![speakerId] =
                          [accessToken |-> b.refreshedTokens.accessToken,
                           refreshToken |-> googleCalendar[speakerId].refreshToken,
                           expiresAt |-> b.refreshedTokens.expiryDate,
                           connected |-> googleCalendar[speakerId].connected]]
                    /\ bk'[r].pc = "calendar"
              /\ (b.pc = "calendar" /\ "refreshCall" \in Range(b.log)
                    /\ Len(events') > Len(events))
                 => events'[Len(events')].token = b.refreshedTokens.accessToken
              /\ (b.pc = "refresh" /\ bk'[r].pc = "done")
                 => UNCHANGED <<googleCalendar, events, sessions>>]_vars
  /\ [](\A r \in Slots :
          (bk[r].pc = "done" /\ "refreshCall" \in Range(bk[r].log)
             /\ "tokenWrite" \notin Range(bk[r].log))
          => /\ bk[r].res.status = 500
             /\ bk[r].session = 0
             /\ {"calendarCall", "sessionCreate"} \cap Range(bk[r].log) = {})

(* a calendar event created with the token that a refresh of the same      *)
(* request obtained, the stored credential holding that token beside the   *)
(* refresh token it had before                                             *)
C23_Witness ==
  \E r \in Slots :
    /\ "refreshCall" \in Range(bk[r].log)
    /\ bk[r].pc \in {"create", "populate", "done"}
    /\ events # <<>>
    /\ events[Len(events)].token = bk[r].refreshedTokens.accessToken
    /\ events[Len(events)].token # ConnectedCredential.accessToken
    /\ googleCalendar["sp1"] = [ConnectedCredential EXCEPT
           !.accessToken = bk[r].refreshedTokens.accessToken,
           !.expiresAt = bk[r].refreshedTokens.expiryDate]

----------------------------------------------------------------------------
(* C24: every booking and every status check that starts a token refresh   *)
(* ends with a response: the refresh is called at most MaxRetries times,   *)
(* and when the attempts are used up the caller answers with a failure     *)
(* instead of retrying for ever or answering nothing.                      *)
C24_RefreshEnds ==
  /\ \A r \in Slots : (bk[r].pc = "refresh") ~> (bk[r].pc = "done")
  /\ (st.pc = "refresh") ~> (st.pc = "done")
  /\ [](\A r \in Slots :
          /\ bk[r].retry.calls <= MaxRetries
          /\ (bk[r].retry.state = "thrown") => (bk[r].pc = "done" /\ bk[r].res.status = 500))
  /\ [](/\ st.retry.calls <= MaxRetries
        /\ (st.retry.state = "thrown" /\ st.pc = "done") => ~st.res.tokenValid)

(* a booking answered 500 after three refresh attempts that all timed out  *)
C24_Witness ==
  \E r \in Slots :
    /\ bk[r].pc = "done"
    /\ bk[r].retry.calls = MaxRetries
    /\ bk[r].retry.error \in TransientCodes
    /\ bk[r].res.status = 500

----------------------------------------------------------------------------
(* the entries of a list of topics that are neither empty nor blank        *)
NonEmptyEntries(topics) == {i \in 1..Len(topics) : topics[i] \notin {"", " "}}

(* C25: every session bookSession persists has at most 2 topics, none of   *)
(* them empty or blank (they are the non-empty entries of the request),    *)
(* duration 30 and, when it is created, status scheduled; a request is     *)
(* refused as TooManyTopics exactly when more than 2 of its topics are     *)
(* non-empty, and then nothing is created.                                 *)
C25_TopicsCapped ==
  /\ [](\A i \in 1..Len(sessions) :
          /\ Len(sessions[i].topics) <= 2
          /\ NonEmptyEntries(sessions[i].topics) = 1..Len(sessions[i].topics)
          /\ sessions[i].duration = 30)
  /\ [][\A r \in Slots :
          (bk[r].pc = "create" /\ bk'[r].pc = "populate")
          => LET created == sessions'[Len(sessions')]
                 kept == NonEmptyEntries(bk[r].body.topics)
             IN  /\ Len(sessions') = Len(sessions) + 1
                 /\ created.status = "scheduled"
                 /\ Len(created.topics) = Cardinality(kept)
                 /\ \A j \in 1..Len(created.topics) :
                      \E i \in kept : created.topics[j] = bk[r].body.topics[i]]_vars
  /\ [](\A r \in Slots :
          (bk[r].pc # "idle" /\ bk[r].res.error # "MissingFields")
          => /\ Cardinality(NonEmptyEntries(bk[r].body.topics)) > 2
                <=> (bk[r].pc = "done" /\ bk[r].res.error = "TooManyTopics")
             /\ bk[r].res.error = "TooManyTopics"
                => bk[r].session = 0 /\ Range(bk[r].log) \cap EffectEntries = {})
  /\ [][\A r \in Slots :
          (bk'[r].pc = "done" /\ bk'[r].res.error = "TooManyTopics" /\ bk[r].pc # "done")
          => UNCHANGED <<googleCalendar, sessions, events, issued>>]_vars

(* a stored session with two topics, booked with a list of four entries of *)
(* which two are empty or blank                                            *)
C25_Witness ==
  \E r \in Slots :
    /\ bk[r].pc = "done"
    /\ bk[r].body.topics = <<"", "a", " ", "b">>
    /\ bk[r].session \in 1..Len(sessions)
    /\ sessions[bk[r].session].topics = <<"a", "b">>
    /\ sessions[bk[r].session].duration = 30

----------------------------------------------------------------------------
(* C26: whenever no booking request is in flight, every calendar event a   *)
(* booking created has its session record: a stored session of the same    *)
(* speaker that starts at the instant of the event.                        *)
C26_NoOrphanEvent ==
  InFlight = {}
  => \A e \in 1..Len(events) :
       \E i \in 1..Len(sessions) :
         /\ sessions[i].speaker = events[e].speaker
         /\ sessions[i].date = events[e].start

----------------------------------------------------------------------------
(* the access token the provider issued last: the one of the stored        *)
(* credential the model starts with until a refresh has issued another     *)
LatestAccessToken ==
  IF issued = ConnectedCredential.refreshToken THEN ConnectedCredential.accessToken ELSE issued

(* a refreshed token that its request has not yet written to the database  *)
TokenToStore == st.pc = "saveTokens" \/ \E r \in Slots : bk[r].pc = "saveTokens"

(* C27: when the requests that refreshed the token of the speaker have     *)
(* stored what they obtained, the access token in the credential record is *)
(* the one the provider issued last, not one that a later refresh has      *)
(* made invalid.                                                           *)
C27_StoredTokenIsLatest ==
  (~TokenToStore /\ googleCalendar["sp1"].connected)
  => googleCalendar["sp1"].accessToken = LatestAccessToken

----------------------------------------------------------------------------
(* C28: from the completion of disconnectCalendar until the write of the   *)
(* next successful OAuth callback the access token and the expiry of the   *)
(* speaker stay null and connected stays false, whatever a booking or a    *)
(* status check that read the credential earlier does afterwards.          *)
C28_DisconnectHolds ==
  [][\A u \in Speakers :
       (googleCalendar[u] = NoCredential /\ ~(cb.pc = "write" /\ cb.state = u))
       => /\ googleCalendar'[u].accessToken = NoToken
          /\ googleCalendar'[u].expiresAt = NoDate
          /\ ~googleCalendar'[u].connected]_vars

----------------------------------------------------------------------------
(* the entries of a speaker in another order                               *)
Reordered(entries, p) == [i \in 1..Len(entries) |-> entries[p[i]]]

(* C29: the availability decision of a booking is the same for every order *)
(* of the availability entries of the speaker: a request passes the gate   *)
(* exactly when it passes with the entries permuted in any way.            *)
C29_AvailabilityOrderFree ==
  \A r \in Slots :
    LET b == bk[r]
        entries == b.speaker.availability
        instant == sessionInstant(b.body.date.d, b.body.time)
    IN  "availabilityCheck" \in Range(b.log)
        => \A p \in Permutations(1..Len(entries)) :
             (b.res.error \in AvailabilityErrors)
             <=> (isAvailable(Reordered(entries, p), instant, b.body.time) # "ok")

----------------------------------------------------------------------------
(* C30: handleCalendarCallback changes a credential only in the write that *)
(* follows a successful token exchange of a request carrying both code and *)
(* state, and only the credential of the existing user that state names,   *)
(* which it marks connected with the access token and the expiry received; *)
(* a request without code or state (400), with a failed exchange, or for   *)
(* an unknown user (404) changes no credential.                            *)
C30_CallbackWritesOnlyOnSuccess ==
  /\ [][cb' # cb
        => IF cb.pc = "write" /\ UserExists(cb.state)
           THEN /\ \A u \in Speakers \ {cb.state} : googleCalendar'[u] = googleCalendar[u]
                /\ googleCalendar'[cb.state].accessToken = cb.tokens.accessToken
                /\ googleCalendar'[cb.state].expiresAt = cb.tokens.expiryDate
                /\ googleCalendar'[cb.state].connected
                /\ cb.tokens.hasRefresh
                   => googleCalendar'[cb.state].refreshToken = cb.tokens.refreshToken
           ELSE googleCalendar' = googleCalendar]_vars
  /\ [](cb.pc = "write"
          => /\ cb.code # ""
             /\ cb.state # ""
             /\ cb.retry.state = "ok"
             /\ cb.tokens.accessToken # NoToken)
  /\ []((cb.pc = "done" /\ cb.status = 400) => (cb.code = "" \/ cb.state = ""))
  /\ []((cb.pc = "done" /\ cb.status = 404) => ~UserExists(cb.state))
  /\ []((cb.pc = "done" /\ (cb.code = "" \/ cb.state = "")) => cb.status = 400)

(* a callback whose exchange succeeded for a user that does not exist,     *)
(* answered 404 with every credential as it was before the first callback  *)
C30_Witness ==
  /\ cb.pc = "done"
  /\ cb.state = "ghost"
  /\ cb.retry.state = "ok"
  /\ cb.status = 404
  /\ \A u \in Speakers : googleCalendar[u] = NoCredential

====
